---- MODULE Spec2Model ----
(***************************************************************************)
(* Model of src/lib/telemetry.js: the Do-Not-Track gate, the one-shot      *)
(* start(), the bound tracker, the performance API and the asynchronous    *)
(* loading of the analytics and error-reporting scripts.                   *)
(*                                                                         *)
(* Every handler (module load, start, mark, measure, a script's load or    *)
(* error callback) is one atomic action: the page is single-threaded and   *)
(* each handler runs to completion.  The step just taken is kept in        *)
(* lastOp: the operation, the value of the privacy signal when it ran, the *)
(* sequence of outward effects it made and whether it threw.               *)
(***************************************************************************)
EXTENDS Integers, Sequences, FiniteSets, TLC

\* ---------------------------------------------------------------- bounds
MaxTime == 1
MaxEntries == 2
MaxRequests == 2

\* ------------------------------------------------------------- constants
MOZILLA_RESEARCH_TRACKER == "UA-77033033-6"
GROUPS == "MozillaResearch"
ANALYTICS_URL == "https://www.googletagmanager.com/gtag/js?id=UA-77033033-6"
RAVEN_URL == "https://cdn.ravenjs.com/3.22.3/console/raven.min.js"

\* values a Do-Not-Track flag can hold: the string '1', or "unset" for every
\* value that is not the string '1' (absent, '0', 'unspecified')
FlagValues == {"1", "unset"}
\* the name the page gives its marks, and the name it gives its measures
Names == {"a"}
MeasureNames == {"b"}
\* event names the tracker is called with
Labels == {"custom_event"}
\* values of a flag where doNotTrack() is exercised on its own: the string '1', the
\* strings '0', 'unspecified' and 'yes' that browsers have used, and
\* "absent" for a property that is not defined
GateValues == {"1", "0", "unspecified", "yes", "absent"}
\* an omitted startMark / endMark argument
Undefined == "undefined"
\* what measure is given as startMark and endMark: the name of the page's
\* marks, a name the page never marks, or nothing
MarkArgs == Names \cup {"c", Undefined}
\* the configuration objects passed to start; an argument that is not
\* defined is start()
Configs == [errorLogging : BOOLEAN, analytics : BOOLEAN, performance : BOOLEAN]
EmptyConfig == [errorLogging |-> FALSE, analytics |-> FALSE, performance |-> FALSE]
ConfigArgs == {[defined |-> TRUE, value |-> c] : c \in Configs}
                \cup {[defined |-> FALSE, value |-> EmptyConfig]}

VARIABLES
  navDoNotTrack,   \* navigator.doNotTrack
  msDoNotTrack,    \* navigator.msDoNotTrack
  winDoNotTrack,   \* window.doNotTrack
  phase,           \* "preload" before the module's script ran, then "loaded"
  loadDnt,         \* the privacy signal when the module's script ran, "none" before
  gtag,            \* window.gtag: "none", "module" (line 68), "host", or
                   \* "hostThrows" for a host function that raises
  called,          \* the flag of onlyOnce
  perf,            \* telemetry.performance: its kind and the tracker it closed over
  tracker,         \* the tracker returned by startAnalytics, "none" before
  trackerDnt,      \* the privacy signal when that tracker was constructed
  firstStart,      \* the argument and privacy signal of the first start call
  ravenLoads,      \* one record per request of the error-reporting script
  analyticsLoad,   \* the analytics script: "none", "pending", "settled" (callback ran)
  timeline,        \* the host's performance timeline, in insertion order
  now,             \* the host's clock at its last timing call, in half milliseconds
  lastOp           \* the step just taken

vars == <<navDoNotTrack, msDoNotTrack, winDoNotTrack, phase, loadDnt, gtag, called, perf,
          tracker, trackerDnt, firstStart, ravenLoads, analyticsLoad, timeline,
          now, lastOp>>

flagVars == <<navDoNotTrack, msDoNotTrack, winDoNotTrack>>

\* ---------------------------------------------------------------- effects
\* An outward effect of a step.  k is its kind, a its name or url, v its
\* value, to the receiver of a gtag call, sendTo the event's send_to and
\* cat is the event's event_category.
Eff(k, a, v, to, sendTo, cat) ==
  [k |-> k, a |-> a, v |-> v, to |-> to, sendTo |-> sendTo, cat |-> cat]
ScriptEff(url) == Eff("script", url, 0, "", "", "")
WarnEff(msg) == Eff("warn", msg, 0, "", "", "")
HostEff(k, name) == Eff(k, name, 0, "", "", "")
RavenInstallEff == Eff("ravenInstall", "", 0, "", "", "")
SetPerformanceEff == Eff("setPerformance", "", 0, "", "", "")
\* the value a call of doNotTrack() returned
ReturnEff(b) == Eff("return", IF b THEN "true" ELSE "false", 0, "", "", "")
NoEff == <<>>

GtagKinds == {"js", "config", "event"}
HostTimingKinds == {"performance.mark", "performance.measure", "performance.getEntriesByName"}

Kinds(eff) == {eff[i].k : i \in 1..Len(eff)}

\* The record of a step: the operation, the privacy signal when it ran, its
\* effects in order, whether it threw, and, for a call of start after the
\* first, whether its argument asks for a feature the first call's did not.
OpRecord(op, dnt, eff, threw, asksMore) ==
  [op |-> op, dnt |-> dnt, eff |-> eff, threw |-> threw, asksMore |-> asksMore]
Op(op, dnt, eff, threw) == OpRecord(op, dnt, eff, threw, FALSE)
\* the record of a step of the environment, which runs no code of the module
Idle == Op("environment", FALSE, NoEff, FALSE)

\* The privacy signal as the browser holds it: some flag is the string '1'.
PrivacySignal ==
  \/ navDoNotTrack = "1"
  \/ msDoNotTrack = "1"
  \/ winDoNotTrack = "1"

\* ------------------------------------------------------------ doNotTrack
doNotTrackIgnoresWindow ==
  \/ navDoNotTrack = "1"
  \/ msDoNotTrack = "1"

doNotTrack ==
  \/ navDoNotTrack = "1"
  \/ msDoNotTrack = "1"
  \/ winDoNotTrack = "1"

\* ---------------------------------------------------------------- trackers
\* A tracker value: kind "none" (no tracker was made), "NO_OP" (line 36) or
\* "trackingFunction" (line 156) with the groups it closed over.
NoTracker == [kind |-> "none", groups |-> ""]
NO_OP == [kind |-> "NO_OP", groups |-> ""]

\* ------------------------------------------------------------ telemetry._gtag
\* The receiver of a call of window.gtag when window.gtag is g: the data
\* layer for the module's own function (line 68), the host's function, or
\* NO_OP when window.gtag is undefined (line 40).
Receiver(g) ==
  CASE g = "none" -> "noop"
    [] g = "module" -> "dataLayer"
    [] OTHER -> "host"

\* telemetry._gtag(k, a, options) with window.gtag = g.  The result is the
\* effect made and whether the call threw.
_gtag(g, k, a, v, sendTo, cat) ==
  [eff |-> <<Eff(k, a, v, Receiver(g), sendTo, cat)>>, threw |-> (g = "hostThrows")]

\* --------------------------------------------------- configureBoundTracker
\* function trackingFunction(command, label, options), closed over groups
trackingFunctionSkipsGate(groups, g, command, label, v, cat) ==
  _gtag(g, command, label, v, IF groups # "" THEN groups ELSE "", cat)

trackingFunctionDropsGroups(groups, g, command, label, v, cat) ==
  IF doNotTrack
    THEN [eff |-> NoEff, threw |-> FALSE]
    ELSE _gtag(g, command, label, v, "", cat)

trackingFunction(groups, g, command, label, v, cat) ==
  IF doNotTrack
    THEN [eff |-> NoEff, threw |-> FALSE]
    ELSE _gtag(g, command, label, v, IF groups # "" THEN groups ELSE "", cat)

\* a call tr(command, label, options) of a tracker value
CallTracker(tr, g, command, label, v, cat) ==
  IF tr.kind = "trackingFunction"
    THEN trackingFunction(tr.groups, g, command, label, v, cat)
    ELSE [eff |-> NoEff, threw |-> FALSE]

\* configureBoundTracker(trackingId, options) with options.groups = groups.
\* tracker is the returned value; it is NoTracker when the config call threw
\* and nothing was returned.
configureBoundTrackerBindsUnderDnt(trackingId, groups, g) ==
  IF doNotTrack
    THEN [tracker |-> [kind |-> "trackingFunction", groups |-> groups],
          eff |-> NoEff, threw |-> FALSE]
    ELSE LET c == _gtag(g, "config", trackingId, 0, "", "")
         IN  [tracker |-> IF c.threw THEN NoTracker
                          ELSE [kind |-> "trackingFunction", groups |-> groups],
              eff |-> c.eff, threw |-> c.threw]

configureBoundTracker(trackingId, groups, g) ==
  IF doNotTrack
    THEN [tracker |-> NO_OP, eff |-> NoEff, threw |-> FALSE]
    ELSE LET c == _gtag(g, "config", trackingId, 0, "", "")
         IN  [tracker |-> IF c.threw THEN NoTracker
                          ELSE [kind |-> "trackingFunction", groups |-> groups],
              eff |-> c.eff, threw |-> c.threw]

\* ---------------------------------------------------------- startAnalytics
startAnalyticsRequestsScript(g) ==
  LET b == configureBoundTracker(MOZILLA_RESEARCH_TRACKER, GROUPS, g)
      e == CallTracker(b.tracker, g, "event", "using_webvr_template", 0, "")
  IN  IF b.threw
        THEN b
        ELSE [tracker |-> IF e.threw THEN NoTracker ELSE b.tracker,
              eff |-> b.eff \o e.eff
                      \o (IF doNotTrack THEN NoEff ELSE <<ScriptEff(ANALYTICS_URL)>>),
              threw |-> e.threw]

startAnalytics(g) ==
  LET b == configureBoundTracker(MOZILLA_RESEARCH_TRACKER, GROUPS, g)
      e == CallTracker(b.tracker, g, "event", "using_webvr_template", 0, "")
  IN  IF b.threw
        THEN b
        ELSE [tracker |-> IF e.threw THEN NoTracker ELSE b.tracker,
              eff |-> b.eff \o e.eff, threw |-> e.threw]

\* ------------------------------------------------------------ injectScript
\* injectScript(src, callback): the script element is appended to the page;
\* the callback runs later, from the element's load or error event.
injectScript(src) == <<ScriptEff(src)>>

\* The listeners injectScript puts on the script element (lines 171-180):
\* the calls of callback each one makes when its event fires, as the pairs
\* (err, success) it passes; none when no callback was given.
loadListenerCallsTwice(hasCallback) ==
  IF hasCallback
    THEN <<[err |-> FALSE, success |-> TRUE], [err |-> FALSE, success |-> TRUE]>>
    ELSE <<>>

loadListener(hasCallback) ==
  IF hasCallback THEN <<[err |-> FALSE, success |-> TRUE]>> ELSE <<>>

errorListener(hasCallback) ==
  IF hasCallback THEN <<[err |-> TRUE, success |-> FALSE]>> ELSE <<>>

\* A request of the error-reporting script: the state of its element, the
\* calls of its callback so far, what the callback found for 'Raven' in
\* window (FALSE until it looked), and how many warnings and installs the
\* callback made.
PendingLoad ==
  [status |-> "pending", calls |-> <<>>, ravenInWindow |-> FALSE, warns |-> 0,
   installs |-> 0]

\* ------------------------------------------------------- setupErrorLogging
setupErrorLoggingSkipsGate(loads) ==
  [eff |-> injectScript(RAVEN_URL), loads |-> Append(loads, PendingLoad)]

setupErrorLogging(loads) ==
  IF doNotTrack
    THEN [eff |-> NoEff, loads |-> loads]
    ELSE [eff |-> injectScript(RAVEN_URL), loads |-> Append(loads, PendingLoad)]

\* --------------------------------------------------- the host's timeline
\* An entry of the performance timeline; times are in half milliseconds.
Entry(type, name, startTime, duration) ==
  [type |-> type, name |-> name, startTime |-> startTime, duration |-> duration]

MarkIndexes(tl, name) == {i \in 1..Len(tl) : tl[i].type = "mark" /\ tl[i].name = name}

\* the time of the most recent mark of that name
MarkTime(tl, name) ==
  LET last == CHOOSE i \in MarkIndexes(tl, name) : \A j \in MarkIndexes(tl, name) : j <= i
  IN  tl[last].startTime

\* host performance.mark(name)
hostMark(tl, t, name) == Append(tl, Entry("mark", name, t, 0))

\* host performance.measure(name, startMark, endMark) raises a SyntaxError
\* when a mark name it is given is not on the timeline
hostMeasureThrows(tl, startMark, endMark) ==
  \/ startMark # Undefined /\ MarkIndexes(tl, startMark) = {}
  \/ endMark # Undefined /\ MarkIndexes(tl, endMark) = {}

\* host performance.measure(name, startMark, endMark), when it does not
\* raise: from the time origin when startMark is omitted, to now when
\* endMark is omitted
hostMeasure(tl, t, name, startMark, endMark) ==
  LET from == IF startMark = Undefined THEN 0 ELSE MarkTime(tl, startMark)
      to == IF endMark = Undefined THEN t ELSE MarkTime(tl, endMark)
  IN  Append(tl, Entry("measure", name, from, to - from))

\* host performance.getEntriesByName(name)[0]: the entries of that name,
\* marks and measures alike, come sorted by startTime; the order of two
\* entries with the same startTime is left to the browser, so the first
\* one is any entry of the least startTime.
FirstEntries(tl, name) ==
  {i \in 1..Len(tl) :
     /\ tl[i].name = name
     /\ \A j \in 1..Len(tl) : tl[j].name = name => tl[i].startTime <= tl[j].startTime}

\* Math.round of a duration given in half milliseconds: halves round up
MathRound(halves) == (halves + 1) \div 2

\* ----------------------------------------------------- setupPerformanceAPI
DefaultPerformance == [kind |-> "NO_OP", tracker |-> NoTracker]

setupPerformanceAPI(tr) == [kind |-> "instrumented", tracker |-> tr]

\* telemetry.performance.mark(name) as installed by setupPerformanceAPI
markSkipsGate(tl, t, name) ==
  [eff |-> <<HostEff("performance.mark", name)>>, timeline |-> hostMark(tl, t, name),
   threw |-> FALSE]

mark(tl, t, name) ==
  IF doNotTrack
    THEN [eff |-> NoEff, timeline |-> tl, threw |-> FALSE]
    ELSE [eff |-> <<HostEff("performance.mark", name)>>,
          timeline |-> hostMark(tl, t, name), threw |-> FALSE]

\* telemetry.performance.measure(name, start, end) as installed by
\* setupPerformanceAPI; first is the index of the entry that
\* getEntriesByName(name)[0] yields
measure(tr, g, tl, t, name, startMark, endMark, first) ==
  IF doNotTrack
    THEN [eff |-> NoEff, timeline |-> tl, threw |-> FALSE]
    ELSE IF hostMeasureThrows(tl, startMark, endMark)
      THEN [eff |-> <<HostEff("performance.measure", name)>>, timeline |-> tl,
            threw |-> TRUE]
      ELSE LET tl2 == hostMeasure(tl, t, name, startMark, endMark)
               duration == tl2[first].duration
               e == CallTracker(tr, g, "event", name, MathRound(duration),
                                "Performance")
           IN  [eff |-> <<HostEff("performance.measure", name),
                          HostEff("performance.getEntriesByName", name)>> \o e.eff,
                timeline |-> tl2, threw |-> e.threw]

\* --------------------------------------------------------- telemetry.start
\* The function handed to onlyOnce (lines 49-60), run on the argument arg
\* with window.gtag = g.  The result is the effects made, whether it threw,
\* and the values it leaves in the state.
startBodyPerformanceAlone(arg, g) ==
  LET config == IF arg.defined THEN arg.value ELSE EmptyConfig
      el == IF config.errorLogging
              THEN setupErrorLogging(ravenLoads)
              ELSE [eff |-> NoEff, loads |-> ravenLoads]
      an == IF config.analytics
              THEN startAnalytics(g)
              ELSE [tracker |-> NoTracker, eff |-> NoEff, threw |-> FALSE]
      pf == config.performance /\ ~an.threw
  IN  [eff |-> el.eff \o an.eff \o (IF pf THEN <<SetPerformanceEff>> ELSE NoEff),
       threw |-> an.threw,
       loads |-> el.loads,
       ranAnalytics |-> config.analytics,
       tracker |-> an.tracker,
       perf |-> IF pf
                  THEN setupPerformanceAPI(IF config.analytics THEN an.tracker ELSE NO_OP)
                  ELSE perf]

startBodyAnalyticsFirst(arg, g) ==
  LET config == IF arg.defined THEN arg.value ELSE EmptyConfig
      el == IF config.errorLogging
              THEN setupErrorLogging(ravenLoads)
              ELSE [eff |-> NoEff, loads |-> ravenLoads]
      an == IF config.analytics
              THEN startAnalytics(g)
              ELSE [tracker |-> NoTracker, eff |-> NoEff, threw |-> FALSE]
      pf == config.analytics /\ config.performance /\ ~an.threw
  IN  [eff |-> an.eff \o el.eff \o (IF pf THEN <<SetPerformanceEff>> ELSE NoEff),
       threw |-> an.threw,
       loads |-> el.loads,
       ranAnalytics |-> config.analytics,
       tracker |-> an.tracker,
       perf |-> IF pf THEN setupPerformanceAPI(an.tracker) ELSE perf]

startBody(arg, g) ==
  LET config == IF arg.defined THEN arg.value ELSE EmptyConfig
      el == IF config.errorLogging
              THEN setupErrorLogging(ravenLoads)
              ELSE [eff |-> NoEff, loads |-> ravenLoads]
      an == IF config.analytics
              THEN startAnalytics(g)
              ELSE [tracker |-> NoTracker, eff |-> NoEff, threw |-> FALSE]
      pf == config.analytics /\ config.performance /\ ~an.threw
  IN  [eff |-> el.eff \o an.eff \o (IF pf THEN <<SetPerformanceEff>> ELSE NoEff),
       threw |-> an.threw,
       loads |-> el.loads,
       ranAnalytics |-> config.analytics,
       tracker |-> an.tracker,
       perf |-> IF pf THEN setupPerformanceAPI(an.tracker) ELSE perf]

\* ---------------------------------------------------------------- onlyOnce
\* The wrapper returned by onlyOnce(fn), applied to the result r that fn
\* would give: fn is not run when called is set, and called is set after fn
\* has returned.
Skipped ==
  [eff |-> NoEff, threw |-> FALSE, loads |-> ravenLoads, ranAnalytics |-> FALSE,
   tracker |-> NoTracker, perf |-> perf, called |-> called]

onlyOnceNeverSets(r) ==
  IF called
    THEN Skipped
    ELSE [eff |-> r.eff, threw |-> r.threw, loads |-> r.loads,
          ranAnalytics |-> r.ranAnalytics, tracker |-> r.tracker, perf |-> r.perf,
          called |-> FALSE]

onlyOnceSetsWhenTracking(r) ==
  IF called
    THEN Skipped
    ELSE [eff |-> r.eff, threw |-> r.threw, loads |-> r.loads,
          ranAnalytics |-> r.ranAnalytics, tracker |-> r.tracker, perf |-> r.perf,
          called |-> ~doNotTrack]

onlyOnce(r) ==
  IF called
    THEN Skipped
    ELSE [eff |-> r.eff, threw |-> r.threw, loads |-> r.loads,
          ranAnalytics |-> r.ranAnalytics, tracker |-> r.tracker, perf |-> r.perf,
          called |-> IF r.threw THEN FALSE ELSE TRUE]

\* ---------------------------------------------------------- setupAnalytics
\* setupAnalytics() at module load with window.gtag = g: the value it leaves
\* in window.gtag, the effects made, whether window.gtag('js', ...) threw,
\* and the state of the analytics script.
setupAnalyticsSkipsGate(g) ==
  LET g2 == IF g = "none" THEN "module" ELSE g
      js == [eff |-> <<Eff("js", "", 0, Receiver(g2), "", "")>>,
             threw |-> (g2 = "hostThrows")]
  IN  IF js.threw
        THEN [gtag |-> g2, eff |-> js.eff, threw |-> TRUE, load |-> "none"]
        ELSE [gtag |-> g2, eff |-> js.eff \o injectScript(ANALYTICS_URL),
              threw |-> FALSE, load |-> "pending"]

setupAnalytics(g) ==
  IF doNotTrack
    THEN [gtag |-> g, eff |-> NoEff, threw |-> FALSE, load |-> "none"]
    ELSE LET g2 == IF g = "none" THEN "module" ELSE g
             js == [eff |-> <<Eff("js", "", 0, Receiver(g2), "", "")>>,
                    threw |-> (g2 = "hostThrows")]
         IN  IF js.threw
               THEN [gtag |-> g2, eff |-> js.eff, threw |-> TRUE, load |-> "none"]
               ELSE [gtag |-> g2, eff |-> js.eff \o injectScript(ANALYTICS_URL),
                     threw |-> FALSE, load |-> "pending"]

\* --------------------------------------- the callbacks of the script loads
\* the callback given to injectScript by setupErrorLogging (lines 82-92),
\* run for the load l; err is whether the error event fired, ravenInWindow
\* whether 'Raven' in window
ravenCallbackIgnoresError(l, err, ravenInWindow) ==
  IF ~ravenInWindow
    THEN [eff |-> <<WarnEff("Could not find window.Raven global")>>,
          load |-> [l EXCEPT !.status = IF err THEN "failed" ELSE "loaded",
                             !.warns = @ + 1]]
    ELSE [eff |-> <<RavenInstallEff>>,
          load |-> [l EXCEPT !.status = IF err THEN "failed" ELSE "loaded",
                             !.ravenInWindow = TRUE, !.installs = @ + 1]]

ravenCallbackIgnoresGlobal(l, err, ravenInWindow) ==
  IF err
    THEN [eff |-> <<WarnEff("Could not load Raven.js script:")>>,
          load |-> [l EXCEPT !.status = "failed", !.warns = @ + 1]]
    ELSE [eff |-> <<RavenInstallEff>>,
          load |-> [l EXCEPT !.status = "loaded", !.ravenInWindow = ravenInWindow,
                             !.installs = @ + 1]]

ravenCallback(l, err, ravenInWindow) ==
  IF err
    THEN [eff |-> <<WarnEff("Could not load Raven.js script:")>>,
          load |-> [l EXCEPT !.status = "failed", !.warns = @ + 1]]
    ELSE IF ~ravenInWindow
      THEN [eff |-> <<WarnEff("Could not find window.Raven global")>>,
            load |-> [l EXCEPT !.status = "loaded", !.warns = @ + 1]]
      ELSE [eff |-> <<RavenInstallEff>>,
            load |-> [l EXCEPT !.status = "loaded", !.ravenInWindow = TRUE,
                               !.installs = @ + 1]]

\* the calls cs of that callback, made one after the other by a listener
RECURSIVE RunRavenCallbacks(_, _, _)
RunRavenCallbacks(l, cs, ravenInWindow) ==
  IF cs = <<>>
    THEN [eff |-> NoEff, load |-> l]
    ELSE LET r == ravenCallback([l EXCEPT !.calls = Append(@, Head(cs))],
                                Head(cs).err, ravenInWindow)
             rest == RunRavenCallbacks(r.load, Tail(cs), ravenInWindow)
         IN  [eff |-> r.eff \o rest.eff, load |-> rest.load]

\* the callback given to injectScript by setupAnalytics (lines 71-76)
analyticsCallback(err) ==
  IF err
    THEN [eff |-> <<WarnEff("Could not load Analytics.js script:")>>, load |-> "settled"]
    ELSE [eff |-> NoEff, load |-> "settled"]

\* the calls cs of that callback, made one after the other by a listener,
\* for the analytics script in the state load
RECURSIVE RunAnalyticsCallbacks(_, _)
RunAnalyticsCallbacks(load, cs) ==
  IF cs = <<>>
    THEN [eff |-> NoEff, load |-> load]
    ELSE LET r == analyticsCallback(Head(cs).err)
             rest == RunAnalyticsCallbacks(r.load, Tail(cs))
         IN  [eff |-> r.eff \o rest.eff, load |-> rest.load]

\* ------------------------------------------------------------------ Init
TypeInit ==
  /\ navDoNotTrack \in FlagValues
  /\ msDoNotTrack \in FlagValues
  /\ winDoNotTrack \in FlagValues
  /\ phase = "preload"
  /\ loadDnt = "none"
  /\ called = FALSE
  /\ perf = DefaultPerformance
  /\ tracker = NoTracker
  /\ trackerDnt = "none"
  /\ firstStart = [made |-> FALSE, cfg |-> EmptyConfig, dnt |-> FALSE]
  /\ ravenLoads = <<>>
  /\ analyticsLoad = "none"
  /\ timeline = <<>>
  /\ now = 0
  /\ lastOp = Idle

\* The host page either leaves window.gtag undefined or defines one that
\* returns normally.
Init ==
  /\ TypeInit
  /\ gtag \in {"none", "host"}

\* --------------------------------------------------------------- actions
\* The module's script runs (lines 2-204): telemetry.start and
\* telemetry.performance are defined, then setupAnalytics() is called.
Load ==
  /\ phase = "preload"
  /\ LET r == setupAnalytics(gtag)
     IN  /\ gtag' = r.gtag
         /\ analyticsLoad' = r.load
         /\ lastOp' = Op("load", PrivacySignal, r.eff, r.threw)
  /\ phase' = "loaded"
  /\ loadDnt' = IF PrivacySignal THEN "disallowed" ELSE "allowed"
  /\ UNCHANGED <<flagVars, called, perf, tracker, trackerDnt, firstStart,
                 ravenLoads, timeline, now>>

\* arg asks for a feature that the argument of the first call of start did not
AsksMore(arg) ==
  /\ arg.defined
  /\ \/ arg.value.errorLogging /\ ~firstStart.cfg.errorLogging
     \/ arg.value.analytics /\ ~firstStart.cfg.analytics
     \/ arg.value.performance /\ ~firstStart.cfg.performance

\* The page calls telemetry.start(arg).
Start(arg) ==
  /\ phase = "loaded"
  /\ Len(ravenLoads) < MaxRequests
  /\ LET r == onlyOnce(startBody(arg, gtag))
     IN  /\ called' = r.called
         /\ ravenLoads' = r.loads
         /\ perf' = r.perf
         /\ tracker' = IF r.ranAnalytics THEN r.tracker ELSE tracker
         /\ trackerDnt' = IF r.ranAnalytics
                            THEN (IF PrivacySignal THEN "disallowed" ELSE "allowed")
                            ELSE trackerDnt
         /\ lastOp' = IF firstStart.made
                         THEN OpRecord("start again", PrivacySignal, r.eff, r.threw,
                                       AsksMore(arg))
                         ELSE Op("start", PrivacySignal, r.eff, r.threw)
  /\ firstStart' = IF firstStart.made
                     THEN firstStart
                     ELSE [made |-> TRUE,
                           cfg |-> IF arg.defined THEN arg.value ELSE EmptyConfig,
                           dnt |-> PrivacySignal]
  /\ UNCHANGED <<flagVars, phase, loadDnt, gtag, analyticsLoad, timeline, now>>

\* The page calls telemetry.performance.mark(name) when the host's clock
\* reads t.  The clock is read only by the host's timing calls, so it is
\* advanced here, in the calls that reach the host.
Mark(name, t) ==
  /\ phase = "loaded"
  /\ Len(timeline) < MaxEntries
  /\ t >= now
  /\ LET r == IF perf.kind = "instrumented"
                THEN mark(timeline, t, name)
                ELSE [eff |-> NoEff, timeline |-> timeline, threw |-> FALSE]
     IN  /\ timeline' = r.timeline
         /\ now' = IF r.timeline # timeline THEN t ELSE now
         /\ lastOp' = Op("mark", PrivacySignal, r.eff, r.threw)
  /\ UNCHANGED <<flagVars, phase, loadDnt, gtag, called, perf, tracker, trackerDnt,
                 firstStart, ravenLoads, analyticsLoad>>

\* The page calls telemetry.performance.measure(name, startMark, endMark)
\* when the host's clock reads t.
Measure(name, startMark, endMark, t) ==
  /\ phase = "loaded"
  /\ Len(timeline) < MaxEntries
  /\ t >= now
  /\ \E first \in 1..(Len(timeline) + 1) :
       /\ IF perf.kind = "instrumented" /\ ~doNotTrack
               /\ ~hostMeasureThrows(timeline, startMark, endMark)
            THEN first \in FirstEntries(hostMeasure(timeline, t, name, startMark,
                                                    endMark), name)
            ELSE first = 1
       /\ LET r == IF perf.kind = "instrumented"
                     THEN measure(perf.tracker, gtag, timeline, t, name,
                                  startMark, endMark, first)
                     ELSE [eff |-> NoEff, timeline |-> timeline, threw |-> FALSE]
          IN  /\ timeline' = r.timeline
              /\ now' = IF r.timeline # timeline THEN t ELSE now
              /\ lastOp' = Op("measure", PrivacySignal, r.eff, r.threw)
  /\ UNCHANGED <<flagVars, phase, loadDnt, gtag, called, perf, tracker, trackerDnt,
                 firstStart, ravenLoads, analyticsLoad>>

\* The tracker returned by startAnalytics is called with an event.
TrackerCall(label) ==
  /\ tracker.kind # "none"
  /\ LET r == CallTracker(tracker, gtag, "event", label, 0, "")
     IN  lastOp' = Op("tracker", PrivacySignal, r.eff, r.threw)
  /\ UNCHANGED <<flagVars, phase, loadDnt, gtag, called, perf, tracker, trackerDnt,
                 firstStart, ravenLoads, analyticsLoad, timeline, now>>

\* The load event or, when err, the error event of the i-th error-reporting
\* script element fires and its listener runs.  An element fires one of the
\* two events, once.
RavenEvent(i, err, ravenInWindow) ==
  /\ i \in 1..Len(ravenLoads)
  /\ ravenLoads[i].status = "pending"
  /\ LET cs == IF err THEN errorListener(TRUE) ELSE loadListener(TRUE)
         r == RunRavenCallbacks(ravenLoads[i], cs, ravenInWindow)
     IN  /\ ravenLoads' = [ravenLoads EXCEPT ![i] = r.load]
         /\ lastOp' = Op(IF err THEN "ravenError" ELSE "ravenLoad", PrivacySignal,
                         r.eff, FALSE)
  /\ UNCHANGED <<flagVars, phase, loadDnt, gtag, called, perf, tracker, trackerDnt,
                 firstStart, analyticsLoad, timeline, now>>

\* The load event or, when err, the error event of the analytics script
\* element fires and its listener runs.
AnalyticsEvent(err) ==
  /\ analyticsLoad = "pending"
  /\ LET cs == IF err THEN errorListener(TRUE) ELSE loadListener(TRUE)
         r == RunAnalyticsCallbacks(analyticsLoad, cs)
     IN  /\ analyticsLoad' = r.load
         /\ lastOp' = Op(IF err THEN "analyticsError" ELSE "analyticsLoad",
                         PrivacySignal, r.eff, FALSE)
  /\ UNCHANGED <<flagVars, phase, loadDnt, gtag, called, perf, tracker, trackerDnt,
                 firstStart, ravenLoads, timeline, now>>

\* The user or the browser changes one of the three Do-Not-Track flags.
SetFlag(flag, v) ==
  /\ \/ flag = "navigator.doNotTrack" /\ navDoNotTrack # v /\ navDoNotTrack' = v
        /\ UNCHANGED <<msDoNotTrack, winDoNotTrack>>
     \/ flag = "navigator.msDoNotTrack" /\ msDoNotTrack # v /\ msDoNotTrack' = v
        /\ UNCHANGED <<navDoNotTrack, winDoNotTrack>>
     \/ flag = "window.doNotTrack" /\ winDoNotTrack # v /\ winDoNotTrack' = v
        /\ UNCHANGED <<navDoNotTrack, msDoNotTrack>>
  /\ lastOp' = Idle
  /\ UNCHANGED <<phase, loadDnt, gtag, called, perf, tracker, trackerDnt, firstStart,
                 ravenLoads, analyticsLoad, timeline, now>>

Flags == {"navigator.doNotTrack", "navigator.msDoNotTrack", "window.doNotTrack"}

\* The host page defines window.gtag after the module left it undefined.
HostDefinesGtag ==
  /\ phase = "loaded"
  /\ gtag = "none"
  /\ gtag' = "host"
  /\ lastOp' = Idle
  /\ UNCHANGED <<flagVars, phase, loadDnt, called, perf, tracker, trackerDnt, firstStart,
                 ravenLoads, analyticsLoad, timeline, now>>

Next ==
  \/ Load
  \/ \E arg \in ConfigArgs : Start(arg)
  \/ \E name \in Names, t \in now..MaxTime : Mark(name, t)
  \/ \E name \in MeasureNames, startMark \in MarkArgs, endMark \in MarkArgs,
        t \in now..MaxTime :
       Measure(name, startMark, endMark, t)
  \/ \E label \in Labels : TrackerCall(label)
  \/ \E i \in 1..Len(ravenLoads), err \in BOOLEAN, ravenInWindow \in BOOLEAN :
       RavenEvent(i, err, ravenInWindow)
  \/ \E err \in BOOLEAN : AnalyticsEvent(err)
  \/ \E flag \in Flags, v \in FlagValues : SetFlag(flag, v)
  \/ HostDefinesGtag

Spec == Init /\ [][Next]_vars

\* ------------------------------------------------ the loading of scripts
\* The steps that request a script, fire its events, or change what the
\* requests and the callbacks depend on.  mark and measure are left out:
\* they read and write only the timeline, the clock and the tracker.
LoaderNext ==
  \/ Load
  \/ \E arg \in ConfigArgs : Start(arg)
  \/ \E label \in Labels : TrackerCall(label)
  \/ \E i \in 1..Len(ravenLoads), err \in BOOLEAN, ravenInWindow \in BOOLEAN :
       RavenEvent(i, err, ravenInWindow)
  \/ \E err \in BOOLEAN : AnalyticsEvent(err)
  \/ \E flag \in Flags, v \in FlagValues : SetFlag(flag, v)
  \/ HostDefinesGtag

\* The browser ends every request of a script: the load or the error event
\* of a script element that was appended to the page does fire.
ScriptEventsFire ==
  /\ \A i \in 1..MaxRequests :
       WF_vars(\E err \in BOOLEAN, ravenInWindow \in BOOLEAN :
                 RavenEvent(i, err, ravenInWindow))
  /\ WF_vars(\E err \in BOOLEAN : AnalyticsEvent(err))

LoaderSpec == Init /\ [][LoaderNext]_vars /\ ScriptEventsFire

TypeOK ==
  /\ navDoNotTrack \in FlagValues
  /\ msDoNotTrack \in FlagValues
  /\ winDoNotTrack \in FlagValues
  /\ phase \in {"preload", "loaded"}
  /\ loadDnt \in {"none", "allowed", "disallowed"}
  /\ gtag \in {"none", "module", "host", "hostThrows"}
  /\ called \in BOOLEAN
  /\ perf.kind \in {"NO_OP", "instrumented"}
  /\ tracker.kind \in {"none", "NO_OP", "trackingFunction"}
  /\ trackerDnt \in {"none", "allowed", "disallowed"}
  /\ Len(ravenLoads) <= MaxRequests
  /\ analyticsLoad \in {"none", "pending", "settled"}
  /\ Len(timeline) <= MaxEntries
  /\ now \in 0..MaxTime

\* ------------------------------------- a host whose window.gtag may raise
\* The host page leaves window.gtag undefined, or defines one that returns
\* normally, or defines one that raises an exception when called.
HostileInit ==
  /\ TypeInit
  /\ gtag \in {"none", "host", "hostThrows"}

HostileSpec == HostileInit /\ [][Next]_vars

\* ------------------------------------------- doNotTrack() on its own
\* The loaded module with the three flags holding any of GateValues.
GateInit ==
  /\ navDoNotTrack \in GateValues
  /\ msDoNotTrack \in GateValues
  /\ winDoNotTrack \in GateValues
  /\ phase = "loaded"
  /\ loadDnt \in {"allowed", "disallowed"}
  /\ gtag = "none"
  /\ called = FALSE
  /\ perf = DefaultPerformance
  /\ tracker = NoTracker
  /\ trackerDnt = "none"
  /\ firstStart = [made |-> FALSE, cfg |-> EmptyConfig, dnt |-> FALSE]
  /\ ravenLoads = <<>>
  /\ analyticsLoad = "none"
  /\ timeline = <<>>
  /\ now = 0
  /\ lastOp = Idle

\* One of the module's gates calls doNotTrack().
CallDoNotTrack ==
  /\ lastOp' = Op("doNotTrack", PrivacySignal, <<ReturnEff(doNotTrack)>>, FALSE)
  /\ UNCHANGED <<flagVars, phase, loadDnt, gtag, called, perf, tracker, trackerDnt,
                 firstStart, ravenLoads, analyticsLoad, timeline, now>>

GateNext ==
  \/ CallDoNotTrack
  \/ \E flag \in Flags, v \in GateValues : SetFlag(flag, v)

GateSpec == GateInit /\ [][GateNext]_vars

\* ================================================================ claims

\* the requests of the error-reporting script whose error event fired
FailedLoads == {i \in 1..Len(ravenLoads) : ravenLoads[i].status = "failed"}

\* C1: in a step where the privacy signal is set, no script is requested and
\* no analytics 'config' call is issued: at module load, in start and in
\* every later operation.
C1_NoSetupUnderDnt ==
  lastOp.dnt => Kinds(lastOp.eff) \cap {"script", "config"} = {}

\* start is called with error logging and analytics asked for while the
\* privacy signal is set
C1_Witness ==
  /\ lastOp.op = "start"
  /\ lastOp.dnt
  /\ firstStart.cfg.errorLogging
  /\ firstStart.cfg.analytics

\* C2: a call of start after the first one is a no-op whatever its argument
\* and the privacy signal: no script, no tracker call, no assignment of
\* telemetry.performance; what is set up is what the first call's
\* configuration asked for.
C2_StartIdempotent ==
  /\ lastOp.op = "start again" => lastOp.eff = NoEff /\ ~lastOp.threw
  /\ firstStart.made =>
       /\ perf.kind = "instrumented"
            <=> (firstStart.cfg.analytics /\ firstStart.cfg.performance)
       /\ tracker.kind # "none" <=> firstStart.cfg.analytics
       /\ Len(ravenLoads) = IF firstStart.cfg.errorLogging /\ ~firstStart.dnt
                              THEN 1 ELSE 0

\* a second call of start asks, with tracking allowed, for a feature that
\* the first call left off
C2_Witness ==
  /\ lastOp.op = "start again"
  /\ lastOp.asksMore
  /\ ~lastOp.dnt

\* C3: no call reaches telemetry._gtag in a step where the privacy signal is
\* set, also for a tracker that was constructed while it was clear and for
\* the events of telemetry.performance.measure.
C3_TrackerSilentUnderDnt ==
  lastOp.dnt => Kinds(lastOp.eff) \cap GtagKinds = {}

\* a tracker constructed with tracking allowed is called after the privacy
\* signal was set
C3_Witness ==
  /\ lastOp.op = "tracker"
  /\ lastOp.dnt
  /\ trackerDnt = "allowed"
  /\ tracker.kind = "trackingFunction"

\* C4: when the privacy signal is set at the call of configureBoundTracker,
\* no 'config' call is issued and the returned tracker forwards nothing in
\* any later call, also after the signal is cleared.
C4_TrackerBuiltUnderDntIsNoOp ==
  trackerDnt = "disallowed" =>
    /\ tracker = NO_OP
    /\ Kinds(lastOp.eff) \cap {"config", "event"} = {}

\* the tracker constructed under the privacy signal is called, directly or
\* by measure, after the signal was cleared
C4_Witness ==
  /\ trackerDnt = "disallowed"
  /\ ~lastOp.dnt
  /\ \/ lastOp.op = "tracker"
     \/ lastOp.op = "measure" /\ lastOp.eff # NoEff /\ ~lastOp.threw

\* C5: the error-reporting library is never configured and installed in a
\* step where the privacy signal is set, also when the signal is set between
\* the request of the script and its load callback.
C5_RavenNeverInstalledUnderDnt ==
  lastOp.dnt => "ravenInstall" \notin Kinds(lastOp.eff)

\* C6: the first call of start consumes the one-shot guard also when the
\* privacy signal is set: a later call, made with the signal cleared, is a
\* no-op and sets up no error logging, analytics or performance
\* instrumentation.
C6_GuardConsumedUnderDnt ==
  firstStart.made /\ firstStart.dnt =>
    /\ called
    /\ ravenLoads = <<>>
    /\ tracker.kind \in {"none", "NO_OP"}
    /\ lastOp.op = "start again" => lastOp.eff = NoEff /\ ~lastOp.threw

\* the first call was made under the privacy signal, and a later one asks,
\* with the signal cleared, for a feature the first call left off
C6_Witness ==
  /\ firstStart.made
  /\ firstStart.dnt
  /\ lastOp.op = "start again"
  /\ lastOp.asksMore
  /\ ~lastOp.dnt

\* C7: no call of start, telemetry.performance.mark or
\* telemetry.performance.measure throws.
C7_NothingThrows ==
  lastOp.op \in {"start", "start again", "mark", "measure"} => ~lastOp.threw

\* C8: after start with performance on and analytics off, no tracker exists,
\* telemetry.performance keeps its default no-ops, and no call reaches the
\* host's timing functions or the tracker.
C8_PerformanceAloneStaysNoOp ==
  firstStart.made /\ firstStart.cfg.performance /\ ~firstStart.cfg.analytics =>
    /\ perf = DefaultPerformance
    /\ tracker = NoTracker
    /\ timeline = <<>>
    /\ Kinds(lastOp.eff) \cap ({"config", "event", "setPerformance"} \cup HostTimingKinds) = {}

\* measure is called with tracking allowed after start({performance: true})
C8_Witness ==
  /\ firstStart.made
  /\ firstStart.cfg.performance
  /\ ~firstStart.cfg.analytics
  /\ lastOp.op = "measure"
  /\ ~lastOp.dnt

\* C9: a call of mark or measure made while the privacy signal is set reaches
\* no timing function of the host and sends no event, with or without the
\* instrumentation installed.
C9_PerformanceNoOpUnderDnt ==
  lastOp.op \in {"mark", "measure"} /\ lastOp.dnt => lastOp.eff = NoEff

\* mark is called under the privacy signal with the instrumentation
\* installed over a tracker that was constructed with tracking allowed
C9_Witness ==
  /\ lastOp.op = "mark"
  /\ lastOp.dnt
  /\ perf.kind = "instrumented"
  /\ perf.tracker.kind = "trackingFunction"

\* C10: when the load of the error-reporting script fails, one warning is
\* logged for it, the library is not configured or installed, no script is
\* requested again, start has returned normally, and the analytics and the
\* performance instrumentation asked for in that call are in place.
C10_RavenLoadFailure ==
  /\ lastOp.op = "ravenError" =>
       /\ Len(lastOp.eff) = 1
       /\ Kinds(lastOp.eff) = {"warn"}
  /\ FailedLoads # {} =>
       /\ \A i \in FailedLoads : ravenLoads[i].warns = 1 /\ ravenLoads[i].installs = 0
       /\ Len(ravenLoads) = 1
       /\ called
       /\ tracker.kind # "none" <=> firstStart.cfg.analytics
       /\ perf.kind = "instrumented"
            <=> (firstStart.cfg.analytics /\ firstStart.cfg.performance)

\* the error event of the script fires after a start that asked for error
\* logging, analytics and performance
C10_Witness ==
  /\ lastOp.op = "ravenError"
  /\ FailedLoads # {}
  /\ firstStart.cfg.analytics
  /\ firstStart.cfg.performance

\* the requests of the error-reporting script whose load event fired
LoadedLoads == {i \in 1..Len(ravenLoads) : ravenLoads[i].status = "loaded"}

\* C11: when the load event of the error-reporting script fires, the library
\* is configured and installed (once) if and only if the global Raven is
\* present; when it is absent one warning is logged and nothing is
\* configured.  Over the page's lifetime Raven is configured at most once.
C11_RavenInstalledIffGlobal ==
  /\ lastOp.op = "ravenLoad" =>
       /\ Len(lastOp.eff) = 1
       /\ Kinds(lastOp.eff) \subseteq {"ravenInstall", "warn"}
       /\ "ravenInstall" \in Kinds(lastOp.eff) =>
            \E i \in LoadedLoads : ravenLoads[i].ravenInWindow
       /\ "warn" \in Kinds(lastOp.eff) =>
            \E i \in LoadedLoads : ~ravenLoads[i].ravenInWindow
  /\ \A i \in LoadedLoads :
       IF ravenLoads[i].ravenInWindow
         THEN ravenLoads[i].installs = 1 /\ ravenLoads[i].warns = 0
         ELSE ravenLoads[i].installs = 0 /\ ravenLoads[i].warns = 1
  /\ \A i, j \in 1..Len(ravenLoads) :
       ravenLoads[i].installs > 0 /\ ravenLoads[j].installs > 0 => i = j

\* the script's load event fires on a page where the global Raven is absent
C11_Witness ==
  /\ lastOp.op = "ravenLoad"
  /\ \E i \in LoadedLoads : ~ravenLoads[i].ravenInWindow
  /\ Kinds(lastOp.eff) = {"warn"}

\* the place of an effect of start in the order of its body: the request of
\* the error-reporting script, the 'config' call, the initial event, the
\* assignment of telemetry.performance
SetupRank(k) ==
  CASE k = "script" -> 1
    [] k = "config" -> 2
    [] k = "event" -> 3
    [] k = "setPerformance" -> 4
    [] OTHER -> 0

\* C12: in the execution of start the error-reporting script is requested
\* before the 'config' call, which is before the initial event, which is
\* before telemetry.performance is assigned; the script is requested
\* whatever the analytics option is, and telemetry.performance is assigned
\* only when analytics was asked for in that call.
C12_StartOrder ==
  lastOp.op = "start" =>
    /\ \A i, j \in 1..Len(lastOp.eff) :
         i < j => 0 < SetupRank(lastOp.eff[i].k)
                  /\ SetupRank(lastOp.eff[i].k) < SetupRank(lastOp.eff[j].k)
    /\ "script" \in Kinds(lastOp.eff) <=> (firstStart.cfg.errorLogging /\ ~lastOp.dnt)
    /\ "config" \in Kinds(lastOp.eff) <=> (firstStart.cfg.analytics /\ ~lastOp.dnt)
    /\ "setPerformance" \in Kinds(lastOp.eff)
         <=> (firstStart.cfg.analytics /\ firstStart.cfg.performance)

\* start sets up error logging, analytics and performance in one call
C12_Witness ==
  /\ lastOp.op = "start"
  /\ Len(lastOp.eff) = 4
  /\ Kinds(lastOp.eff) = {"script", "config", "event", "setPerformance"}

\* the argument of start({analytics: true, performance: true})
AnalyticsAndPerformance ==
  [errorLogging |-> FALSE, analytics |-> TRUE, performance |-> TRUE]

\* C13: a run whose first start asked, under the privacy signal, for
\* analytics and performance behaves in every later mark and measure like a
\* run whose first start was start({}) under the privacy signal.  In the
\* latter run telemetry.performance keeps its no-ops, so the two runs agree
\* exactly when, in both, every later mark and measure reaches no timing
\* function of the host, sends no event and does not throw.
C13_SuppressedLikeNotEnabled ==
  /\ firstStart.made
  /\ firstStart.dnt
  /\ firstStart.cfg \in {EmptyConfig, AnalyticsAndPerformance}
  /\ lastOp.op \in {"mark", "measure"}
  => lastOp.eff = NoEff /\ ~lastOp.threw

\* C14: the event sent by a call of measure carries event_category
\* 'Performance' and, as its value, the rounded duration of the entry which
\* that very call recorded, also when earlier calls recorded entries of the
\* same name.
C14_MeasureSendsOwnDuration ==
  lastOp.op = "measure" =>
    \A i \in 1..Len(lastOp.eff) :
      lastOp.eff[i].k = "event" =>
        /\ lastOp.eff[i].cat = "Performance"
        /\ lastOp.eff[i].a = timeline[Len(timeline)].name
        /\ lastOp.eff[i].v = MathRound(timeline[Len(timeline)].duration)

\* the calls a callback has received once the load event, and once the error
\* event, of its script has fired
SuccessCall == <<[err |-> FALSE, success |-> TRUE]>>
FailureCall == <<[err |-> TRUE, success |-> FALSE]>>

\* the i-th request of the error-reporting script was made and neither of
\* its events has fired
PendingRequest(i) == i <= Len(ravenLoads) /\ ravenLoads[i].status = "pending"

\* the callback of a requested script has not run before the step that
\* requested it returned, and then has run once, with (null, true) after
\* the load event and with an error after the error event
CallbackAtMostOnce ==
  /\ \A i \in 1..Len(ravenLoads) :
       /\ ravenLoads[i].status = "pending" =>
            /\ ravenLoads[i].calls = <<>>
            /\ ravenLoads[i].warns + ravenLoads[i].installs = 0
       /\ ravenLoads[i].status = "loaded" =>
            /\ ravenLoads[i].calls = SuccessCall
            /\ ravenLoads[i].warns + ravenLoads[i].installs = 1
       /\ ravenLoads[i].status = "failed" =>
            /\ ravenLoads[i].calls = FailureCall
            /\ ravenLoads[i].warns = 1 /\ ravenLoads[i].installs = 0
  /\ lastOp.op \in {"load", "start", "start again"} =>
       Kinds(lastOp.eff) \cap {"warn", "ravenInstall"} = {}
  /\ lastOp.op = "analyticsError" =>
       lastOp.eff = <<WarnEff("Could not load Analytics.js script:")>>
  /\ lastOp.op = "analyticsLoad" => lastOp.eff = NoEff
  /\ lastOp.op = "ravenError" =>
       lastOp.eff = <<WarnEff("Could not load Raven.js script:")>>
  /\ lastOp.op = "ravenLoad" =>
       /\ Len(lastOp.eff) = 1
       /\ lastOp.eff # <<WarnEff("Could not load Raven.js script:")>>
  /\ loadListener(FALSE) = <<>>
  /\ errorListener(FALSE) = <<>>

\* C15: for each call of injectScript the callback is called exactly once,
\* after injectScript has returned: with (null, true) when the script
\* loads, with an error when it fails, never both and never twice; without
\* a callback nothing is called.
C15_CallbackExactlyOnce ==
  /\ []CallbackAtMostOnce
  /\ \A i \in 1..MaxRequests : PendingRequest(i) ~> ~PendingRequest(i)
  /\ (analyticsLoad = "pending") ~> (analyticsLoad = "settled")

\* the load event of the error-reporting script has fired and its callback
\* has run
C15_Witness ==
  /\ lastOp.op = "ravenLoad"
  /\ \E i \in LoadedLoads : ravenLoads[i].calls = SuccessCall
  /\ analyticsLoad = "settled"

\* C16: a call of doNotTrack() returns true if and only if at least one of
\* navigator.doNotTrack, navigator.msDoNotTrack and window.doNotTrack is the
\* string '1' at the time of that call, whatever other values the flags
\* hold and whatever they held at earlier calls.
C16_DoNotTrackReadsFlags ==
  lastOp.op = "doNotTrack" =>
    /\ lastOp.eff \in {<<ReturnEff(TRUE)>>, <<ReturnEff(FALSE)>>}
    /\ lastOp.eff = <<ReturnEff(TRUE)>>
         <=> "1" \in {navDoNotTrack, msDoNotTrack, winDoNotTrack}

\* doNotTrack() is called when window.doNotTrack alone is '1' and the two
\* other flags hold a value that is not '1'
C16_Witness ==
  /\ lastOp.op = "doNotTrack"
  /\ winDoNotTrack = "1"
  /\ navDoNotTrack = "0"
  /\ msDoNotTrack = "absent"
  /\ lastOp.eff = <<ReturnEff(TRUE)>>

\* the places of the effects of kind k in the sequence eff
Places(eff, k) == {i \in 1..Len(eff) : eff[i].k = k}

\* C17: a start that asks for analytics while tracking is allowed issues
\* exactly one 'config' call, for the fixed tracking id, and after it exactly
\* one event, 'using_webvr_template'; no other step issues a 'config' call;
\* an event is forwarded only by the tracker which that 'config' call
\* preceded, and it carries send_to equal to the groups of that tracker.
C17_ConfigThenEvents ==
  /\ lastOp.op = "start" /\ firstStart.cfg.analytics /\ ~lastOp.dnt =>
       /\ \E c \in Places(lastOp.eff, "config") :
            /\ Places(lastOp.eff, "config") = {c}
            /\ lastOp.eff[c].a = MOZILLA_RESEARCH_TRACKER
            /\ \E e \in Places(lastOp.eff, "event") :
                 /\ Places(lastOp.eff, "event") = {e}
                 /\ c < e
                 /\ lastOp.eff[e].a = "using_webvr_template"
  /\ lastOp.op # "start" => Places(lastOp.eff, "config") = {}
  /\ \A e \in Places(lastOp.eff, "event") :
       /\ tracker = [kind |-> "trackingFunction", groups |-> GROUPS]
       /\ trackerDnt = "allowed"
       /\ lastOp.eff[e].sendTo = GROUPS

\* start is called with analytics asked for while tracking is allowed
C17_Witness ==
  /\ lastOp.op = "start"
  /\ firstStart.cfg.analytics
  /\ ~lastOp.dnt
  /\ Places(lastOp.eff, "event") # {}

\* C18: the body of start runs at most once also when the first call
\* throws: after the first call the one-shot guard is set, a later call
\* makes no effect and does not throw, and the error-reporting script is
\* requested at most once.
C18_BodyRunsOnceAlsoWhenItThrows ==
  /\ firstStart.made => called
  /\ lastOp.op = "start again" => lastOp.eff = NoEff /\ ~lastOp.threw
  /\ Len(ravenLoads) <= 1

\* the effects of the step just taken that are calls of window.gtag
\* received by the module's data layer
DataLayerCalls ==
  {i \in 1..Len(lastOp.eff) :
     lastOp.eff[i].k \in GtagKinds /\ lastOp.eff[i].to = "dataLayer"}

\* C19: when the privacy signal is set at module load, the module never
\* defines window.gtag and never requests the analytics script; as long as
\* the host page defines no window.gtag either, telemetry._gtag is the
\* no-op, and no 'config' call or event reaches the data layer in any later
\* step, also after the signal is cleared.
C19_NoDataLayerAfterLoadUnderDnt ==
  loadDnt = "disallowed" =>
    /\ gtag # "module"
    /\ analyticsLoad = "none"
    /\ ScriptEff(ANALYTICS_URL) \notin {lastOp.eff[i] : i \in 1..Len(lastOp.eff)}
    /\ DataLayerCalls = {}
    /\ gtag = "none" =>
         \A i \in 1..Len(lastOp.eff) :
           lastOp.eff[i].k \in GtagKinds => lastOp.eff[i].to = "noop"

\* the module was loaded under the privacy signal on a page without
\* window.gtag; the signal was cleared and start asks for analytics
C19_Witness ==
  /\ loadDnt = "disallowed"
  /\ gtag = "none"
  /\ lastOp.op = "start"
  /\ ~lastOp.dnt
  /\ Places(lastOp.eff, "config") # {}

\* the urls of the scripts requested in the step just taken
RequestedScripts == {lastOp.eff[i].a : i \in Places(lastOp.eff, "script")}

\* C20: the analytics script is requested and the gtag('js') entry is made at
\* module load if and only if the privacy signal is clear at that moment,
\* each once, and in no other step, whether or not start is called and
\* whatever its argument; the only script a call of start requests is the
\* error-reporting library.
C20_AnalyticsScriptOnlyAtLoad ==
  /\ lastOp.op = "load" =>
       /\ RequestedScripts = IF lastOp.dnt THEN {} ELSE {ANALYTICS_URL}
       /\ Cardinality(Places(lastOp.eff, "script")) = IF lastOp.dnt THEN 0 ELSE 1
       /\ Cardinality(Places(lastOp.eff, "js")) = IF lastOp.dnt THEN 0 ELSE 1
  /\ lastOp.op # "load" =>
       /\ ANALYTICS_URL \notin RequestedScripts
       /\ Places(lastOp.eff, "js") = {}
  /\ lastOp.op \in {"start", "start again"} => RequestedScripts \subseteq {RAVEN_URL}
  /\ phase = "loaded" => (analyticsLoad # "none" <=> loadDnt = "allowed")

\* after a load with tracking allowed, start sets up error logging and
\* analytics with tracking allowed
C20_Witness ==
  /\ loadDnt = "allowed"
  /\ lastOp.op = "start"
  /\ ~lastOp.dnt
  /\ firstStart.cfg.analytics
  /\ RequestedScripts = {RAVEN_URL}

====
